---- MODULE Spec2Model ----
(***************************************************************************)
(* Model of the BIS-tracker crawl orchestration (src/scraper.py):          *)
(*   - the Run Orchestrator main(): failed-first pass, sequential pass,    *)
(*     retry controller fetch_and_parse, circuit breaker maybe_cooldown,   *)
(*     cursor and failed-page queue persistence  (specification Spec);     *)
(*   - the Delta Engine compute_delta with norm  (specification SpecDelta).*)
(*   - the queue function pop_failed_batch  (specification SpecQueue).     *)
(*   - main() run to its end, nothing killing it  (specification SpecLive). *)
(* The configuration values below are the environment-overridable settings *)
(* of src/scraper.py lines 12-32, set to small values so that every window *)
(* and threshold is crossed within a few pages.                            *)
(***************************************************************************)
EXTENDS Integers, Sequences, FiniteSets, TLC

\* ------------------------------------------------------------ configuration
TARGET_MAX_PAGE == 4
PAGES_PER_RUN == 3
DELTA_SCAN_PAGES == 2
FRONT_REFRESH_PAGES == 1
MAX_RETRIES_PER_PAGE == 1
GLOBAL_MINUTES_BUDGET == 2
ERROR_BAIL_WINDOW == 2
ERROR_BAIL_THRESHOLD_PCT == 80
COOLDOWN_ON_STORM_MINUTES == 1
STORM_COOLDOWNS_MAX == 1
FAILED_PAGE_RETRY_LIMIT == 2
FAILED_PAGE_MAX_ATTEMPTS == 2
\* consec_empty >= 2 ends the baseline (literal in main)
EMPTY_TOLERANCE == 2

\* ------------------------------------------------------------------ helpers
Min(a, b) == IF a < b THEN a ELSE b
Max(a, b) == IF a > b THEN a ELSE b
Range(s) == {s[i] : i \in DOMAIN s}
PagesOf(queue) == {queue[i].n : i \in DOMAIN queue}
Pages == 1..TARGET_MAX_PAGE

RECURSIVE SumSeq(_)
SumSeq(s) == IF s = <<>> THEN 0 ELSE Head(s) + SumSeq(Tail(s))

\* ------------------------------------------------------- failed-page queue
\* load_failed_queue: keep the first entry of each page, attempts clamped at 0
LoadFailedQueueStep(cleaned, item) ==
    IF item.n \in PagesOf(cleaned) THEN cleaned
    ELSE Append(cleaned, [n |-> item.n, attempts |-> Max(0, item.attempts)])

RECURSIVE LoadFailedQueueFrom(_, _)
LoadFailedQueueFrom(cleaned, items) ==
    IF items = <<>> THEN cleaned
    ELSE LoadFailedQueueFrom(LoadFailedQueueStep(cleaned, Head(items)), Tail(items))

load_failed_queue(file) == LoadFailedQueueFrom(<<>>, file)

\* save_failed_queue: entries whose attempts reached the maximum are not written
save_failed_queue(queue) ==
    SelectSeq(queue, LAMBDA p : p.attempts < FAILED_PAGE_MAX_ATTEMPTS)

\* push_failed_page: bump the first entry of page n (capped), else append it
push_failed_page(queue, n) ==
    IF n > TARGET_MAX_PAGE THEN queue
    ELSE IF n \in PagesOf(queue)
    THEN LET first == CHOOSE i \in DOMAIN queue :
                         /\ queue[i].n = n
                         /\ \A j \in DOMAIN queue : queue[j].n = n => i <= j
         IN  [queue EXCEPT ![first].attempts =
                               Min(@ + 1, FAILED_PAGE_MAX_ATTEMPTS)]
    ELSE Append(queue, [n |-> n, attempts |-> 1])

\* pop_failed_batch: the first `limit` entries within the ceiling, in queue order
RECURSIVE PopFrom(_, _, _, _)
PopFrom(items, limit, batch, rest) ==
    IF items = <<>> THEN [batch |-> batch, rest |-> rest]
    ELSE LET item == Head(items)
         IN  IF Len(batch) < limit /\ item.n <= TARGET_MAX_PAGE
             THEN PopFrom(Tail(items), limit, Append(batch, item), rest)
             ELSE PopFrom(Tail(items), limit, batch, Append(rest, item))

pop_failed_batch(queue, limit) == PopFrom(queue, limit, <<>>, <<>>)

\* --------------------------------------------------------- worklist, window
\* append to `wl` the elements of `cands` (in order) that are not yet in it
RECURSIVE AddUnvisited(_, _)
AddUnvisited(wl, cands) ==
    IF cands = <<>> THEN wl
    ELSE IF Head(cands) \in Range(wl) THEN AddUnvisited(wl, Tail(cands))
    ELSE AddUnvisited(Append(wl, Head(cands)), Tail(cands))

Interval(a, b) == [i \in 1..Max(0, b - a + 1) |-> a + i - 1]

SeqStart(bc, np) == IF bc THEN 1 ELSE Max(1, np)

\* the steady-state window read as the half-open interval [1, min)
SeqEnd_HalfOpen(bc, np) ==
    IF bc THEN Min(TARGET_MAX_PAGE, DELTA_SCAN_PAGES) - 1
    ELSE Min(TARGET_MAX_PAGE, Max(1, np) + PAGES_PER_RUN - 1)

SeqEnd(bc, np) ==
    IF bc THEN Min(TARGET_MAX_PAGE, DELTA_SCAN_PAGES)
    ELSE Min(TARGET_MAX_PAGE, SeqStart(bc, np) + PAGES_PER_RUN - 1)

FrontWindow(bc) ==
    IF ~bc /\ FRONT_REFRESH_PAGES > 0
    THEN Interval(1, Min(FRONT_REFRESH_PAGES, TARGET_MAX_PAGE))
    ELSE <<>>

BuildWorklist(batch, bc, np) ==
    LET w1 == AddUnvisited(<<>>, SelectSeq(batch, LAMBDA x : 1 <= x /\ x <= TARGET_MAX_PAGE))
        w2 == AddUnvisited(w1, FrontWindow(bc))
    IN  AddUnvisited(w2, Interval(SeqStart(bc, np), SeqEnd(bc, np)))

\* the pages iterated by the failed-first pass: [x for x in worklist if x in failed_batch]
FailedFirstList(wl, batch) == SelectSeq(wl, LAMBDA x : x \in Range(batch))

\* ---------------------------------------------------------- circuit breaker
\* a breaker that judges a window that is not yet full
Storm_AnyLength(flags) ==
    /\ Len(flags) > 0
    /\ SumSeq(flags) * 100 >= ERROR_BAIL_THRESHOLD_PCT * Len(flags)

\* deque(maxlen = ERROR_BAIL_WINDOW).append
FlagsAppend(flags, f) ==
    IF ERROR_BAIL_WINDOW = 0 THEN <<>>
    ELSE IF Len(flags) >= ERROR_BAIL_WINDOW THEN Append(Tail(flags), f)
    ELSE Append(flags, f)

Storm(flags) ==
    /\ Len(flags) = ERROR_BAIL_WINDOW
    /\ Len(flags) > 0
    /\ SumSeq(flags) * 100 >= ERROR_BAIL_THRESHOLD_PCT * Len(flags)

\* maybe_cooldown without the test that the cooldown ends before the deadline
maybe_cooldown_NoDeadline(flags, used, t) ==
    IF ~Storm(flags) THEN "go"
    ELSE IF used < STORM_COOLDOWNS_MAX
    THEN "cooldown"
    ELSE "bail"

\* maybe_cooldown: "go" (no storm), "cooldown" (slept, window cleared), "bail"
maybe_cooldown(flags, used, t) ==
    IF ~Storm(flags) THEN "go"
    ELSE IF used < STORM_COOLDOWNS_MAX
            /\ t + COOLDOWN_ON_STORM_MINUTES < GLOBAL_MINUTES_BUDGET
    THEN "cooldown"
    ELSE "bail"

\* ------------------------------------------------------------- next cursor
\* the cursor without the wrap at the ceiling
NextCursor_NoWrap(bc, seqLast, seqStart, np) ==
    IF ~bc
    THEN [next_page |-> IF seqLast >= seqStart THEN seqLast + 1 ELSE np,
          baseline_complete |-> bc]
    ELSE [next_page |-> 1, baseline_complete |-> TRUE]

\* "Next cursor", lines 531-542
NextCursor(bc, seqLast, seqStart, np) ==
    IF ~bc
    THEN LET nxt == IF seqLast >= seqStart THEN seqLast + 1 ELSE np
         IN  IF nxt > TARGET_MAX_PAGE
             THEN [next_page |-> 1, baseline_complete |-> TRUE]
             ELSE [next_page |-> nxt, baseline_complete |-> bc]
    ELSE [next_page |-> 1, baseline_complete |-> TRUE]

\* ------------------------------------------------------------ delta engine
\* Strings are sequences of characters; NBSP is U+00A0.
NBSP == "nbsp"

\* the characters Python's str.isspace() accepts: they are what \s matches in a
\* str pattern (line 86) and what str.strip() removes (line 87)
WhitespaceChars ==
    {" ", "\t", "\n", "\r", "\f", "U+000B", "U+001C", "U+001D", "U+001E", "U+001F",
     "U+0085", NBSP, "U+1680", "U+2000", "U+2001", "U+2002", "U+2003", "U+2004",
     "U+2005", "U+2006", "U+2007", "U+2008", "U+2009", "U+200A", "U+2028",
     "U+2029", "U+202F", "U+205F", "U+3000"}

IsSpace(c) == c \in WhitespaceChars

\* F(v), with v evaluated once
Once(v, F(_)) == CHOOSE out \in {F(x) : x \in {v}} : TRUE

\* s.replace(NBSP, " ")
ReplaceNbsp(s) == [i \in DOMAIN s |-> IF s[i] = NBSP THEN " " ELSE s[i]]

\* re.sub(r"\s+", " ", s): every run of whitespace becomes one space
RECURSIVE CollapseSpaces(_)
CollapseSpaces(s) ==
    IF s = <<>> THEN <<>>
    ELSE IF IsSpace(Head(s))
    THEN IF Tail(s) # <<>> /\ IsSpace(Head(Tail(s)))
         THEN CollapseSpaces(Tail(s))
         ELSE <<" ">> \o CollapseSpaces(Tail(s))
    ELSE <<Head(s)>> \o CollapseSpaces(Tail(s))

\* s.strip()
RECURSIVE LStrip(_)
LStrip(s) == IF s # <<>> /\ IsSpace(Head(s)) THEN LStrip(Tail(s)) ELSE s

RECURSIVE RStrip(_)
RStrip(s) ==
    IF s # <<>> /\ IsSpace(s[Len(s)]) THEN RStrip(SubSeq(s, 1, Len(s) - 1)) ELSE s

norm(s) ==
    Once(ReplaceNbsp(s), LAMBDA s1 :
        Once(CollapseSpaces(s1), LAMBDA s2 :
            Once(LStrip(s2), LAMBDA s3 : RStrip(s3))))

\* norm on the strings the model's rows hold, computed once
RawStrings ==
    {<<>>, <<"a">>, <<"\r", "a", NBSP>>, <<"b">>, <<"R", " ">>, <<"R">>, <<"Q">>,
     <<"P", NBSP, "\r", "\n", "v">>, <<"P", " ", "v">>}
NormTable == [s \in RawStrings |-> norm(s)]
Norm(s) == IF s \in RawStrings THEN NormTable[s] ELSE norm(s)

\* r.get(f, d) on a record whose fields may be missing
Get(r, f, d) == IF f \in DOMAIN r THEN r[f] ELSE d

\* AUTHORITIES_WHITELIST of this model; AUTHORITIES_NORM maps norm(a) to a
AUTHORITIES_WHITELIST == {<<"R">>}
AuthoritiesNormGet(auth_n, default) ==
    IF \E a \in AUTHORITIES_WHITELIST : Norm(a) = auth_n
    THEN CHOOSE a \in AUTHORITIES_WHITELIST : Norm(a) = auth_n
    ELSE default

\* the `current` dictionary compute_delta builds for a row, lines 227-240
Current(r, today) ==
    [bis_number |-> Get(r, "bis_number", <<>>),
     authority |-> AuthoritiesNormGet(Norm(Get(r, "authority", <<>>)),
                                      Get(r, "authority", <<>>)),
     address |-> Get(r, "address", <<>>),
     object |-> Get(r, "object", <<>>),
     phase |-> Norm(Get(r, "phase", <<>>)),
     construction_type |-> Norm(Get(r, "construction_type", <<>>)),
     details_url |-> Get(r, "details_url", <<>>),
     last_seen |-> today]

\* {**current, "first_seen": fs}
Entry(cur, fs) ==
    [bis_number |-> cur.bis_number, authority |-> cur.authority,
     address |-> cur.address, object |-> cur.object, phase |-> cur.phase,
     construction_type |-> cur.construction_type, details_url |-> cur.details_url,
     last_seen |-> cur.last_seen, first_seen |-> fs]

\* a delta row: the current values, the key and the change tag
\* ("Jauns", or "Stadija: <old phase> -> <new phase or ?>")
ChangeRow(cur, key, tag) == [row |-> cur, key |-> key, change |-> tag]

PhaseTag(old, phase_n) ==
    <<"Stadija", old.phase, IF phase_n = <<>> THEN <<"?">> ELSE phase_n>>

\* a store that holds nothing but the key just written
Put_Only(m, k, v) == [x \in {k} |-> v]

\* m with key k bound to v (dict assignment)
Put(m, k, v) == [x \in DOMAIN m \cup {k} |-> IF x = k THEN v ELSE m[x]]

\* whether a row found in the store is reported, line 247
PhaseDiffers(old, phase_n) == old.phase # phase_n

\* a row absent from the store reported on a baseline call too
ReportsNew_Always(baseline) == TRUE

\* whether a row absent from the store is reported, line 243
ReportsNew(baseline) == ~baseline

\* the loop body for a row whose key is not in `updated`, lines 243-245
NewRow(acc, key, cur, baseline, today) ==
    [updated |-> Put(acc.updated, key, Entry(cur, today)),
     delta |-> IF ReportsNew(baseline)
               THEN Append(acc.delta, ChangeRow(cur, key, <<"Jauns">>))
               ELSE acc.delta]

\* the known-key branch with first_seen overwritten by the day of the call
KnownRow_ResetFirstSeen(acc, key, cur, old) ==
    [updated |-> Put(acc.updated, key, Entry(cur, cur.last_seen)),
     delta |-> IF PhaseDiffers(old, cur.phase)
               THEN Append(acc.delta, ChangeRow(cur, key, PhaseTag(old, cur.phase)))
               ELSE acc.delta]

\* the known-key branch without the assignment updated[key] = ...
KnownRow_NotStored(acc, key, cur, old) ==
    [updated |-> acc.updated,
     delta |-> IF PhaseDiffers(old, cur.phase)
               THEN Append(acc.delta, ChangeRow(cur, key, PhaseTag(old, cur.phase)))
               ELSE acc.delta]

\* the loop body for a row whose key is in `updated`, lines 247-250
KnownRow(acc, key, cur, old) ==
    [updated |-> Put(acc.updated, key, Entry(cur, old.first_seen)),
     delta |-> IF PhaseDiffers(old, cur.phase)
               THEN Append(acc.delta, ChangeRow(cur, key, PhaseTag(old, cur.phase)))
               ELSE acc.delta]

\* one iteration of compute_delta's loop, lines 225-250
DeltaStep(acc, r, baseline, today) ==
    Once(Current(r, today),
         LAMBDA cur : IF r._key \notin DOMAIN acc.updated
                      THEN NewRow(acc, r._key, cur, baseline, today)
                      ELSE KnownRow(acc, r._key, cur, acc.updated[r._key]))

RECURSIVE DeltaLoop(_, _, _, _)
DeltaLoop(acc, rows, baseline, today) ==
    IF rows = <<>> THEN acc
    ELSE Once(DeltaStep(acc, Head(rows), baseline, today),
              LAMBDA acc1 : DeltaLoop(acc1, Tail(rows), baseline, today))

\* compute_delta(prev_state, filtered_rows) -> (delta, updated, baseline)
compute_delta(prev_state, filtered_rows, today) ==
    Once(DeltaLoop([updated |-> prev_state, delta |-> <<>>], filtered_rows,
                   DOMAIN prev_state = {}, today),
         LAMBDA res : [delta |-> res.delta, updated |-> res.updated,
                       baseline |-> (DOMAIN prev_state = {})])

\* the rows the delta engine is exercised with
MaxBatch == 2
MaxDay == 2
Keys == {"X", "Y"}
RawPhases == {<<"a">>, <<"\r", "a", NBSP>>, <<"b">>}
FullRow(k, ph) ==
    [_key |-> k, bis_number |-> <<k>>, authority |-> <<"R", " ">>,
     address |-> <<"s">>, object |-> <<"o">>, phase |-> ph,
     construction_type |-> <<"P", NBSP, "\r", "\n", "v">>, details_url |-> <<"u">>]
BareRow(k) == [_key |-> k]
Rows == {FullRow("X", ph) : ph \in RawPhases} \cup {BareRow("Y")}
BatchesOfLen(len) == [1..len -> Rows]

\* no identity occurs twice in the batch: what main's filtered_map, keyed by
\* _key, passes to compute_delta (lines 547-555)
KeysDistinct(rows) ==
    \A i, j \in DOMAIN rows : i # j => rows[i]._key # rows[j]._key
EmptyState == [k \in {} |-> 0]

\* ------------------------------------------------- page contents and filter
PHASE_KEEP == {<<"a">>, <<"b">>}
TYPE_KEEP == {<<"P", " ", "v">>}

\* filter_row: whitelisted authority; phase and type, when present, on the keep-lists
filter_row(rec) ==
    /\ \E a \in AUTHORITIES_WHITELIST : Norm(a) = Norm(Get(rec, "authority", <<>>))
    /\ \/ Norm(Get(rec, "phase", <<>>)) = <<>>
       \/ Norm(Get(rec, "phase", <<>>)) \in {Norm(x) : x \in PHASE_KEEP}
    /\ \/ Norm(Get(rec, "construction_type", <<>>)) = <<>>
       \/ Norm(Get(rec, "construction_type", <<>>)) \in {Norm(x) : x \in TYPE_KEEP}

\* a record as parse_page returns it (cell texts already normalised)
ParsedRow(k, auth, ph) ==
    [_key |-> k, bis_number |-> <<k>>, authority |-> auth, address |-> <<"s">>,
     object |-> <<"o">>, phase |-> ph, construction_type |-> <<"P", " ", "v">>,
     details_url |-> <<"u">>]

\* the records of page p when the site serves it: odd pages list X, even pages
\* list Y and a record of an authority that is not whitelisted
PageRows(p) ==
    IF p % 2 = 1 THEN <<ParsedRow("X", <<"R">>, <<"a">>)>>
    ELSE <<ParsedRow("Y", <<"R">>, <<"a">>), ParsedRow("Z", <<"Q">>, <<"a">>)>>

\* the in-place normalisation of a kept row, lines 550-553
NormaliseRow(r) ==
    [r EXCEPT !.authority = AuthoritiesNormGet(Norm(r.authority), r.authority),
              !.phase = Norm(r.phase),
              !.construction_type = Norm(r.construction_type)]

\* filtered_map[r["_key"]] = r on an insertion-ordered dict
FilterDedupStep(fm, r) ==
    IF ~filter_row(r) THEN fm
    ELSE [keys |-> IF r._key \in Range(fm.keys) THEN fm.keys ELSE Append(fm.keys, r._key),
          map |-> Put(fm.map, r._key, NormaliseRow(r))]

RECURSIVE FilterDedupLoop(_, _)
FilterDedupLoop(fm, rows) ==
    IF rows = <<>> THEN fm
    ELSE FilterDedupLoop(FilterDedupStep(fm, Head(rows)), Tail(rows))

\* "Filter & de-dup", lines 547-555: list(filtered_map.values())
FilterDedup(rows) ==
    LET fm == FilterDedupLoop([keys |-> <<>>, map |-> EmptyState], rows)
    IN  [i \in DOMAIN fm.keys |-> fm.map[fm.keys[i]]]

\* -------------------------------------------------------------------- state
VARIABLES
    cursor,                \* CURSOR_FILE, as load_cursor reads it
    failed_file,           \* FAILED_FILE ("pages" list), as load_json reads it
    pc,                    \* position of main()
    now,                   \* minutes since the run started (saturates at the budget)
    next_page,             \* main's locals, as named in the source
    baseline_complete,
    failed_queue,
    failed_batch,
    worklist,
    seq_start,
    seq_end,
    visited_set,
    ff_i,                  \* index of the failed-first loop
    n,                     \* page of the sequential loop
    pass,                  \* which pass called fetch_and_parse
    page_no,               \* fetch_and_parse's argument
    retries,               \* fetch_and_parse's retry counter (kept until the loops end)
    consec_empty,
    seq_last_scanned,
    recent_flags,
    storm_cooldowns_used,
    error_pages,
    empty_pages,
    pages_fetched,
    all_parsed,            \* rows accumulated from the pages that returned "ok"
    outcome,               \* history: status returned for each page in this run
    goto_calls,            \* history: page.goto calls made for page_no, kept until
                           \*          the loops end
    failed_at_start,       \* history: FAILED_FILE as loaded by this run
    cursor_at_start,       \* history: CURSOR_FILE as loaded by this run
    ff_stop,               \* history: how the failed-first loop ended
    seq_stop,              \* history: how the sequential loop ended
    seq_trace,             \* history: (page, status) of the sequential pass
    handed,                \* history: pages handed to fetch_and_parse, in order
    goto_at,               \* history: when the latest page.goto started (-1: none),
                           \*          kept until the loops end
    responses,             \* history: what each page.goto of the latest visit came
                           \*          back with, kept until the loops end
    exit_cause,            \* history: why the process last ended without its writes
    breaker_seen,          \* history: error flags since run start / last cooldown
    breaker_last,          \* history: what the latest maybe_cooldown call saw and said
    state_file,            \* STATE_FILE: key -> entry, as load_state reads it
    today,                 \* the day datetime.now() reports
    d_rows,                \* history: filtered_rows of the last compute_delta call
    d_delta,               \* history: delta returned by the last call
    d_baseline,            \* history: baseline flag returned by the last call
    d_delta2,              \* history: delta of a second call with the same rows
                           \*          on the state the last call returned
    q_in,                  \* history: queue["pages"] given to the last pop_failed_batch call
    q_limit,               \* history: its limit
    q_out                  \* history: the batch it returned and the queue it left

vars == <<cursor, failed_file, pc, now, next_page, baseline_complete, failed_queue,
          failed_batch, worklist, seq_start, seq_end, visited_set, ff_i, n, pass,
          page_no, retries, consec_empty, seq_last_scanned, recent_flags,
          storm_cooldowns_used, error_pages, empty_pages, pages_fetched, all_parsed,
          outcome, goto_calls, failed_at_start, cursor_at_start, ff_stop, seq_stop,
          seq_trace, handed, goto_at, responses, exit_cause, breaker_seen,
          breaker_last, state_file, today, d_rows, d_delta, d_baseline, d_delta2,
          q_in, q_limit, q_out>>

delta_vars == <<state_file, today, d_rows, d_delta, d_baseline, d_delta2>>

queue_vars == <<q_in, q_limit, q_out>>

persisted == <<cursor, failed_file>>

locals == <<next_page, baseline_complete, failed_queue, failed_batch, worklist,
            seq_start, seq_end, visited_set, ff_i, n, pass, page_no, retries,
            consec_empty, seq_last_scanned, recent_flags, storm_cooldowns_used,
            error_pages, empty_pages, pages_fetched, all_parsed, outcome, goto_calls,
            failed_at_start, cursor_at_start, ff_stop, seq_stop, seq_trace,
            handed, goto_at, responses, exit_cause, breaker_seen, breaker_last>>

breaker_hist == <<breaker_seen, breaker_last>>

NoBreakerCall == [seen |-> <<>>, verdict |-> "none"]

\* an absent STATE_FILE
InitDeltaVars ==
    /\ state_file = EmptyState
    /\ today = 1
    /\ d_rows = <<>>
    /\ d_delta = <<>>
    /\ d_baseline = FALSE
    /\ d_delta2 = <<>>
    /\ q_in = <<>>
    /\ q_limit = 0
    /\ q_out = [batch |-> <<>>, rest |-> <<>>]

\* load_cursor's default and an absent FAILED_FILE
Init ==
    /\ InitDeltaVars
    /\ cursor = [next_page |-> 1, baseline_complete |-> FALSE]
    /\ failed_file = <<>>
    /\ pc = "idle"
    /\ now = 0
    /\ next_page = 1
    /\ baseline_complete = FALSE
    /\ failed_queue = <<>>
    /\ failed_batch = <<>>
    /\ worklist = <<>>
    /\ seq_start = 1
    /\ seq_end = 0
    /\ visited_set = {}
    /\ ff_i = 1
    /\ n = 1
    /\ pass = "none"
    /\ page_no = 0
    /\ retries = 0
    /\ consec_empty = 0
    /\ seq_last_scanned = 0
    /\ recent_flags = <<>>
    /\ storm_cooldowns_used = 0
    /\ error_pages = <<>>
    /\ empty_pages = <<>>
    /\ pages_fetched = 0
    /\ all_parsed = <<>>
    /\ outcome = [p \in Pages |-> "none"]
    /\ goto_calls = 0
    /\ failed_at_start = <<>>
    /\ cursor_at_start = [next_page |-> 1, baseline_complete |-> FALSE]
    /\ ff_stop = "none"
    /\ seq_stop = "none"
    /\ seq_trace = <<>>
    /\ handed = <<>>
    /\ goto_at = -1
    /\ responses = <<>>
    /\ exit_cause = "none"
    /\ breaker_seen = <<>>
    /\ breaker_last = NoBreakerCall

\* main, lines 314-372: load the cursor and the queue, pop the batch, build the
\* worklist and the sequential window, reset the run's counters
StartRun ==
    /\ pc \in {"idle", "done"}
    /\ UNCHANGED queue_vars
    /\ d_rows' = <<>>
    /\ d_delta' = <<>>
    /\ d_baseline' = FALSE
    /\ d_delta2' = <<>>
    /\ UNCHANGED <<state_file, today>>
    /\ LET bc == cursor.baseline_complete
           np == cursor.next_page
           q == load_failed_queue(failed_file)
           popped == pop_failed_batch(q, FAILED_PAGE_RETRY_LIMIT)
           batch == [i \in DOMAIN popped.batch |-> popped.batch[i].n]
       IN  /\ baseline_complete' = bc
           /\ next_page' = np
           /\ failed_queue' = popped.rest
           /\ failed_batch' = batch
           /\ worklist' = BuildWorklist(batch, bc, np)
           /\ seq_start' = SeqStart(bc, np)
           /\ seq_end' = SeqEnd(bc, np)
           /\ seq_last_scanned' = SeqStart(bc, np) - 1
           /\ n' = SeqStart(bc, np)
    /\ pc' = "ff_head"
    /\ now' = 0
    /\ visited_set' = {}
    /\ ff_i' = 1
    /\ pass' = "ff"
    /\ page_no' = 0
    /\ retries' = 0
    /\ consec_empty' = 0
    /\ recent_flags' = <<>>
    /\ storm_cooldowns_used' = 0
    /\ error_pages' = <<>>
    /\ empty_pages' = <<>>
    /\ pages_fetched' = 0
    /\ all_parsed' = <<>>
    /\ outcome' = [p \in Pages |-> "none"]
    /\ goto_calls' = 0
    /\ failed_at_start' = failed_file
    /\ cursor_at_start' = cursor
    /\ ff_stop' = "none"
    /\ seq_stop' = "none"
    /\ seq_trace' = <<>>
    /\ handed' = <<>>
    /\ goto_at' = -1
    /\ responses' = <<>>
    /\ exit_cause' = "none"
    /\ breaker_seen' = <<>>
    /\ breaker_last' = NoBreakerCall
    /\ UNCHANGED persisted


InRun == pc \in {"ff_head", "seq_head", "call", "inflight"}

\* wall-clock time passes while the run is between or inside page visits
Tick ==
    /\ InRun
    /\ UNCHANGED queue_vars
    /\ UNCHANGED delta_vars
    /\ now < GLOBAL_MINUTES_BUDGET
    /\ now' = now + 1
    /\ UNCHANGED <<persisted, pc, locals>>

\* visited_set.add(n), line 457, with the page forgotten
VisitedAfter_Forget(vs, p) == vs

\* visited_set.add(n), line 457
VisitedAfter(vs, p) == vs \cup {p}

\* what the failed-first loop does with a page's status, lines 457-480
ProcessFF(status) ==
    LET flags1 == FlagsAppend(recent_flags, IF status = "error" THEN 1 ELSE 0)
        cd == maybe_cooldown(flags1, storm_cooldowns_used, now)
    IN  /\ visited_set' = VisitedAfter(visited_set, page_no)
        /\ breaker_seen' = IF cd = "cooldown" THEN <<>>
                           ELSE Append(breaker_seen, IF status = "error" THEN 1 ELSE 0)
        /\ breaker_last' = [seen |-> Append(breaker_seen, IF status = "error" THEN 1 ELSE 0),
                            verdict |-> cd]
        /\ failed_queue' = IF status = "error"
                           THEN push_failed_page(failed_queue, page_no)
                           ELSE failed_queue
        /\ error_pages' = IF status = "error" THEN Append(error_pages, page_no)
                          ELSE error_pages
        /\ pages_fetched' = IF status = "error" THEN pages_fetched
                            ELSE pages_fetched + 1
        /\ all_parsed' = IF status = "ok" THEN all_parsed \o PageRows(page_no)
                         ELSE all_parsed
        /\ recent_flags' = IF cd = "cooldown" THEN <<>> ELSE flags1
        /\ storm_cooldowns_used' = IF cd = "cooldown" THEN storm_cooldowns_used + 1
                                   ELSE storm_cooldowns_used
        /\ now' = IF cd = "cooldown" THEN now + COOLDOWN_ON_STORM_MINUTES ELSE now
        /\ ff_stop' = IF cd = "bail" THEN "bail" ELSE ff_stop
        /\ pc' = IF cd = "bail" THEN "seq_head" ELSE "ff_head"
        /\ ff_i' = IF cd = "bail" THEN ff_i ELSE ff_i + 1
        /\ UNCHANGED <<empty_pages, n, consec_empty, baseline_complete,
                       seq_last_scanned, seq_stop, seq_trace>>

\* what the sequential loop does with a page's status, lines 495-523
ProcessSeq(status) ==
    LET flags1 == FlagsAppend(recent_flags, IF status = "error" THEN 1 ELSE 0)
        ce == IF baseline_complete THEN consec_empty
              ELSE IF status = "empty" THEN consec_empty + 1
              ELSE IF status = "ok" THEN 0
              ELSE consec_empty
        eod == status = "empty" /\ ~baseline_complete /\ ce >= EMPTY_TOLERANCE
        cd == maybe_cooldown(flags1, storm_cooldowns_used, now)
    IN  /\ failed_queue' = IF status = "error"
                           THEN push_failed_page(failed_queue, page_no)
                           ELSE failed_queue
        /\ error_pages' = IF status = "error" THEN Append(error_pages, page_no)
                          ELSE error_pages
        /\ empty_pages' = IF status = "empty" THEN Append(empty_pages, page_no)
                          ELSE empty_pages
        /\ pages_fetched' = IF status = "error" THEN pages_fetched
                            ELSE pages_fetched + 1
        /\ all_parsed' = IF status = "ok" THEN all_parsed \o PageRows(page_no)
                         ELSE all_parsed
        /\ consec_empty' = ce
        /\ seq_last_scanned' = IF status = "ok" THEN Max(seq_last_scanned, page_no)
                               ELSE seq_last_scanned
        /\ seq_trace' = Append(seq_trace, [n |-> page_no, status |-> status])
        /\ breaker_seen' = IF ~eod /\ cd = "cooldown" THEN <<>>
                           ELSE Append(breaker_seen, IF status = "error" THEN 1 ELSE 0)
        /\ breaker_last' = IF eod THEN breaker_last
                           ELSE [seen |-> Append(breaker_seen,
                                                 IF status = "error" THEN 1 ELSE 0),
                                 verdict |-> cd]
        /\ IF eod
           THEN /\ baseline_complete' = TRUE
                /\ seq_stop' = "eod"
                /\ pc' = "save_cursor"
                /\ recent_flags' = flags1
                /\ UNCHANGED <<storm_cooldowns_used, now, n>>
           ELSE /\ recent_flags' = IF cd = "cooldown" THEN <<>> ELSE flags1
                /\ storm_cooldowns_used' = IF cd = "cooldown"
                                           THEN storm_cooldowns_used + 1
                                           ELSE storm_cooldowns_used
                /\ now' = IF cd = "cooldown" THEN now + COOLDOWN_ON_STORM_MINUTES
                          ELSE now
                /\ seq_stop' = IF cd = "bail" THEN "bail" ELSE seq_stop
                /\ pc' = IF cd = "bail" THEN "save_cursor" ELSE "seq_head"
                /\ n' = IF cd = "bail" THEN n ELSE n + 1
                /\ UNCHANGED baseline_complete
        /\ UNCHANGED <<visited_set, ff_i, ff_stop>>

\* fetch_and_parse returns `status` to the pass that called it
Return(status, r) ==
    /\ retries' = r
    /\ outcome' = [outcome EXCEPT ![page_no] = status]
    /\ IF pass = "ff" THEN ProcessFF(status) ELSE ProcessSeq(status)
    /\ UNCHANGED <<persisted, next_page, failed_batch, worklist, seq_start, seq_end,
                   pass, page_no, failed_at_start, cursor_at_start, handed,
                   exit_cause>>

\* head of `for n in [x for x in worklist if x in failed_batch]`, lines 453-456
FFHead ==
    /\ pc = "ff_head"
    /\ UNCHANGED queue_vars
    /\ UNCHANGED delta_vars
    /\ LET lst == FailedFirstList(worklist, failed_batch)
       IN  IF ff_i > Len(lst)
           THEN /\ pc' = "seq_head"
                /\ ff_stop' = "exhausted"
                /\ UNCHANGED <<pass, page_no, retries, goto_calls, handed, responses>>
           ELSE IF now >= GLOBAL_MINUTES_BUDGET
           THEN /\ pc' = "seq_head"
                /\ ff_stop' = "deadline"
                /\ UNCHANGED <<pass, page_no, retries, goto_calls, handed, responses>>
           ELSE /\ pc' = "call"
                /\ pass' = "ff"
                /\ page_no' = lst[ff_i]
                /\ handed' = Append(handed, lst[ff_i])
                /\ retries' = 0
                /\ goto_calls' = 0
                /\ responses' = <<>>
                /\ UNCHANGED ff_stop
    /\ UNCHANGED <<persisted, now, next_page, baseline_complete, failed_queue,
                   failed_batch, worklist, seq_start, seq_end, visited_set, ff_i, n,
                   consec_empty, seq_last_scanned, recent_flags, storm_cooldowns_used,
                   error_pages, empty_pages, pages_fetched, all_parsed, outcome,
                   failed_at_start, cursor_at_start, seq_stop, seq_trace,
                   goto_at, exit_cause, breaker_hist>>

\* head of `while n <= seq_end and utcnow() < deadline`, lines 487-493
SeqHead ==
    /\ pc = "seq_head"
    /\ UNCHANGED queue_vars
    /\ UNCHANGED delta_vars
    /\ IF n > seq_end
       THEN /\ pc' = "save_cursor"
            /\ seq_stop' = "exhausted"
            /\ UNCHANGED <<n, pass, page_no, retries, goto_calls, handed, responses>>
       ELSE IF now >= GLOBAL_MINUTES_BUDGET
       THEN /\ pc' = "save_cursor"
            /\ seq_stop' = "deadline"
            /\ UNCHANGED <<n, pass, page_no, retries, goto_calls, handed, responses>>
       ELSE IF n \in visited_set
       THEN /\ n' = n + 1
            /\ UNCHANGED <<pc, seq_stop, pass, page_no, retries, goto_calls, handed,
                           responses>>
       ELSE /\ pc' = "call"
            /\ pass' = "seq"
            /\ page_no' = n
            /\ handed' = Append(handed, n)
            /\ retries' = 0
            /\ goto_calls' = 0
            /\ responses' = <<>>
            /\ UNCHANGED <<n, seq_stop>>
    /\ UNCHANGED <<persisted, now, next_page, baseline_complete, failed_queue,
                   failed_batch, worklist, seq_start, seq_end, visited_set, ff_i,
                   consec_empty, seq_last_scanned, recent_flags, storm_cooldowns_used,
                   error_pages, empty_pages, pages_fetched, all_parsed, outcome,
                   failed_at_start, cursor_at_start, ff_stop, seq_trace,
                   goto_at, exit_cause, breaker_hist>>

\* the loop guard of fetch_and_parse without the deadline test
MayStartAttempt_NoDeadline(r, t) == r <= MAX_RETRIES_PER_PAGE

\* `while retries <= MAX_RETRIES_PER_PAGE and datetime.utcnow() < deadline`, line 384
MayStartAttempt(r, t) == r <= MAX_RETRIES_PER_PAGE /\ t < GLOBAL_MINUTES_BUDGET

\* fetch_and_parse's loop guard, line 384: start an attempt (page.goto), or return
\* "error" because the deadline passed
FetchBegin ==
    /\ pc = "call"
    /\ UNCHANGED queue_vars
    /\ UNCHANGED delta_vars
    /\ IF MayStartAttempt(retries, now)
       THEN /\ pc' = "inflight"
            /\ goto_calls' = goto_calls + 1
            /\ goto_at' = now
            /\ UNCHANGED <<handed, responses, exit_cause, breaker_hist>>
            /\ UNCHANGED <<persisted, now, next_page, baseline_complete, failed_queue,
                           failed_batch, worklist, seq_start, seq_end, visited_set,
                           ff_i, n, pass, page_no, retries, consec_empty,
                           seq_last_scanned, recent_flags, storm_cooldowns_used,
                           error_pages, empty_pages, pages_fetched, all_parsed, outcome,
                           failed_at_start, cursor_at_start, ff_stop, seq_stop,
                           seq_trace>>
       ELSE /\ Return("error", retries)
            /\ UNCHANGED <<goto_calls, goto_at, responses>>

\* how fetch_and_parse reads what an attempt came back with, lines 402-416: a
\* failure, else parse_page's rows or their absence
Classify(res) ==
    IF res \in {"fail", "fail_backoff_timeout"} THEN "error"
    ELSE IF res = "rows" THEN "ok"
    ELSE "empty"

\* the retries an attempt's failure costs: one for a TimeoutError in the try (line
\* 419) or a backend error page (line 406); two when the backoff or
\* rotate_context() after a backend error page, lines 410-413, still inside the try
\* of line 385, raises TimeoutError and line 419 counts again
RetriesAfter(res, r) ==
    IF res = "fail_backoff_timeout" THEN r + 2 ELSE r + 1

\* the attempt ends, lines 386-425: the page loaded with rows ("rows"), loaded
\* without rows and without the backend-error marker ("norows"), it was a backend
\* error page or the try raised TimeoutError ("fail": both branches do
\* retries += 1 and loop), or it was a backend error page with a retry left whose
\* backoff raised TimeoutError ("fail_backoff_timeout"); a failure is retried while
\* retries remain
FetchEnd ==
    /\ pc = "inflight"
    /\ UNCHANGED queue_vars
    /\ UNCHANGED delta_vars
    /\ \E res \in {"rows", "norows", "fail", "fail_backoff_timeout"} :
          /\ res = "fail_backoff_timeout" => retries + 1 <= MAX_RETRIES_PER_PAGE
          /\ responses' = Append(responses, IF Classify(res) = "error" THEN "fail"
                                            ELSE res)
          /\ IF Classify(res) = "error"
             THEN IF RetriesAfter(res, retries) > MAX_RETRIES_PER_PAGE
                  THEN Return("error", RetriesAfter(res, retries))
                  ELSE /\ pc' = "call"
                       /\ retries' = RetriesAfter(res, retries)
                       /\ UNCHANGED <<persisted, now, next_page, baseline_complete,
                                      failed_queue, failed_batch, worklist, seq_start,
                                      seq_end, visited_set, ff_i, n, pass, page_no,
                                      consec_empty, seq_last_scanned, recent_flags,
                                      storm_cooldowns_used, error_pages, empty_pages,
                                      pages_fetched, all_parsed, outcome,
                                      failed_at_start, cursor_at_start, ff_stop,
                                      seq_stop, seq_trace, handed, exit_cause,
                                      breaker_hist>>
             ELSE Return(Classify(res), retries)
    /\ UNCHANGED <<goto_calls, goto_at>>

\* "Next cursor", lines 531-542; a kill inside the write is Crash's torn case.
\* The loops are over: fetch_and_parse's local and the record of the last visit
\* are dropped.
SaveCursor ==
    /\ pc = "save_cursor"
    /\ UNCHANGED queue_vars
    /\ UNCHANGED delta_vars
    /\ cursor' = NextCursor(baseline_complete, seq_last_scanned, seq_start, next_page)
    /\ baseline_complete' = cursor'.baseline_complete
    /\ pc' = "save_failed"
    /\ retries' = 0
    /\ goto_calls' = 0
    /\ goto_at' = -1
    /\ responses' = <<>>
    /\ UNCHANGED <<failed_file, now, next_page, failed_queue, failed_batch, worklist,
                   seq_start, seq_end, visited_set, ff_i, n, pass, page_no,
                   consec_empty, seq_last_scanned, recent_flags, storm_cooldowns_used,
                   error_pages, empty_pages, pages_fetched, all_parsed, outcome,
                   failed_at_start, cursor_at_start, ff_stop, seq_stop, seq_trace,
                   handed, exit_cause, breaker_hist>>

\* save_failed_queue(failed_queue), line 544; a kill inside the write is Crash's
\* torn case
SaveFailed ==
    /\ pc = "save_failed"
    /\ UNCHANGED queue_vars
    /\ UNCHANGED delta_vars
    /\ failed_file' = save_failed_queue(failed_queue)
    /\ pc' = "save_state"
    /\ UNCHANGED <<cursor, now, locals>>

\* "Filter & de-dup" and "Delta vs previous state", lines 547-560:
\* compute_delta(load_state(), filtered), save_state(updated_state); the run is
\* over. A kill inside the write is Crash's torn case.
SaveState ==
    /\ pc = "save_state"
    /\ UNCHANGED queue_vars
    /\ \E filtered \in {FilterDedup(all_parsed)} :
          \E res \in {compute_delta(state_file, filtered, today)} :
              /\ d_rows' = filtered
              /\ d_delta' = res.delta
              /\ d_baseline' = res.baseline
              /\ state_file' = res.updated
              /\ d_delta2' = compute_delta(res.updated, filtered, today).delta
    /\ pc' = "done"
    /\ UNCHANGED <<today, cursor, failed_file, now, locals>>

\* what load_json returns for a file that dump_json's write_text, line 117, has
\* opened (and so truncated) but not yet written: json.loads fails on the empty
\* text, lines 108-114 swallow the error and return the caller's default
TruncatedCursor == [next_page |-> 1, baseline_complete |-> FALSE]
TruncatedQueue == <<>>
TruncatedState == EmptyState

\* the file main is about to write at pc, if any
FileWrittenAt(p) ==
    IF p = "save_cursor" THEN {"cursor"}
    ELSE IF p = "save_failed" THEN {"failed"}
    ELSE IF p = "save_state" THEN {"state"}
    ELSE {}

\* the process is gone before main has finished its writes: its memory is lost;
\* the files stay as they are, except a file whose write was under way (`torn`),
\* which is left empty
ProcessEnds(cause, torn) ==
    /\ UNCHANGED queue_vars
    /\ exit_cause' = cause
    /\ cursor' = IF torn = "cursor" THEN TruncatedCursor ELSE cursor
    /\ failed_file' = IF torn = "failed" THEN TruncatedQueue ELSE failed_file
    /\ state_file' = IF torn = "state" THEN TruncatedState ELSE state_file
    /\ UNCHANGED today
    /\ pc' = "idle"
    /\ now' = 0
    /\ next_page' = 1
    /\ baseline_complete' = FALSE
    /\ failed_queue' = <<>>
    /\ failed_batch' = <<>>
    /\ worklist' = <<>>
    /\ seq_start' = 1
    /\ seq_end' = 0
    /\ visited_set' = {}
    /\ ff_i' = 1
    /\ n' = 1
    /\ pass' = "none"
    /\ page_no' = 0
    /\ retries' = 0
    /\ consec_empty' = 0
    /\ seq_last_scanned' = 0
    /\ recent_flags' = <<>>
    /\ storm_cooldowns_used' = 0
    /\ error_pages' = <<>>
    /\ empty_pages' = <<>>
    /\ pages_fetched' = 0
    /\ all_parsed' = <<>>
    /\ outcome' = [p \in Pages |-> "none"]
    /\ goto_calls' = 0
    /\ failed_at_start' = <<>>
    /\ cursor_at_start' = [next_page |-> 1, baseline_complete |-> FALSE]
    /\ ff_stop' = "none"
    /\ seq_stop' = "none"
    /\ seq_trace' = <<>>
    /\ handed' = <<>>
    /\ goto_at' = -1
    /\ responses' = <<>>
    /\ breaker_seen' = <<>>
    /\ breaker_last' = NoBreakerCall
    /\ d_rows' = <<>>
    /\ d_delta' = <<>>
    /\ d_baseline' = FALSE
    /\ d_delta2' = <<>>

\* the process is killed from outside (cancelled job, out of memory) anywhere
\* between the start of a run and its last write: between two statements, or
\* inside one of the three writes, after the file was truncated
Crash ==
    /\ pc \notin {"idle", "done"}
    /\ \E torn \in {"none"} \cup FileWrittenAt(pc) : ProcessEnds("killed", torn)

\* page.goto, line 386, raises an exception that is not playwright's TimeoutError
\* (connection refused or reset, name not resolved): `except TimeoutError`, line
\* 418, does not catch it, neither does main, and the process ends with a traceback
FetchRaise ==
    /\ pc = "inflight"
    /\ ProcessEnds("goto_raised", "none")

\* `await browser.close()`, line 529, stands after the loops and outside the try
\* of lines 525-528: when it raises, main ends before any of its writes
BrowserCloseRaise ==
    /\ pc = "save_cursor"
    /\ ProcessEnds("close_raised", "none")

Next ==
    \/ StartRun
    \/ Tick
    \/ FFHead
    \/ SeqHead
    \/ FetchBegin
    \/ FetchEnd
    \/ SaveCursor
    \/ SaveFailed
    \/ SaveState
    \/ Crash
    \/ FetchRaise
    \/ BrowserCloseRaise

Spec == Init /\ [][Next]_vars

\* ------------------------------------- a run that nothing kills from outside
\* main executes its next statement; a page.goto in flight comes back or raises
\* (it carries its own timeout, line 386); browser.close() returns or raises
RunStep ==
    \/ FFHead
    \/ SeqHead
    \/ FetchBegin
    \/ FetchEnd
    \/ FetchRaise
    \/ BrowserCloseRaise
    \/ SaveCursor
    \/ SaveFailed
    \/ SaveState

NextLive ==
    \/ StartRun
    \/ Tick
    \/ RunStep

\* the interpreter keeps executing main once it has started; when the next run
\* starts, and how fast the clock moves, is left open
SpecLive == Init /\ [][NextLive]_vars /\ WF_vars(RunStep)

\* ------------------------------------------------- the delta engine, driven
run_vars == <<cursor, failed_file, pc, now, locals>>

\* compute_delta as a function, lines 220-251, applied to the stored state and
\* any batch over Rows, a batch that repeats an identity included (main itself
\* only passes identity-unique batches, see SaveState); the result is stored as
\* main stores it, line 560; then what compute_delta returns when called again
\* with the same rows on the state just returned
DeltaCall ==
    \E len \in 0..MaxBatch : \E rows \in BatchesOfLen(len) :
        \E res \in {compute_delta(state_file, rows, today)} :
            /\ d_rows' = rows
            /\ d_delta' = res.delta
            /\ d_baseline' = res.baseline
            /\ state_file' = res.updated
            /\ d_delta2' = compute_delta(res.updated, rows, today).delta
            /\ UNCHANGED <<today, run_vars, queue_vars>>

\* the date changes between calls
NextDay ==
    /\ today < MaxDay
    /\ today' = today + 1
    /\ UNCHANGED <<state_file, d_rows, d_delta, d_baseline, d_delta2, run_vars, queue_vars>>

NextDelta ==
    \/ DeltaCall
    \/ NextDay

SpecDelta == Init /\ [][NextDelta]_vars


\* ------------------------------------------------ pop_failed_batch, driven
\* the queues pop_failed_batch is exercised with: what load_failed_queue can
\* return (distinct pages), one page lying beyond the ceiling
MaxQueue == 3
QueuePages == {1, 2, TARGET_MAX_PAGE + 1}
QueueEntries == [n : QueuePages, attempts : 1..FAILED_PAGE_MAX_ATTEMPTS]
QueuesOfLen(len) ==
    {q \in [1..len -> QueueEntries] : \A i, j \in 1..len : i # j => q[i].n # q[j].n}

\* batch = pop_failed_batch(queue, limit); queue["pages"] is what it left
PopCall ==
    \E len \in 0..MaxQueue : \E queue \in QueuesOfLen(len) :
        \E limit \in 0..FAILED_PAGE_RETRY_LIMIT :
            /\ q_in' = queue
            /\ q_limit' = limit
            /\ q_out' = pop_failed_batch(queue, limit)
            /\ UNCHANGED <<run_vars, delta_vars>>

NextQueue == PopCall

SpecQueue == Init /\ [][NextQueue]_vars

\* ================================================================== claims
RunDone == pc = "done"

\* the attempt counter of page p in a queue (0 when p is not queued)
AttemptsIn(queue, p) ==
    IF p \in PagesOf(queue)
    THEN queue[CHOOSE i \in DOMAIN queue : queue[i].n = p].attempts
    ELSE 0

SeqPages == {seq_trace[i].n : i \in DOMAIN seq_trace}
NonError(p) == outcome[p] \in {"ok", "empty"}
StartedBuilding == ~cursor_at_start.baseline_complete
StartedSteady == cursor_at_start.baseline_complete
\* the deadline has not passed, so every Error so far came from a fetch
BudgetLeft == now < GLOBAL_MINUTES_BUDGET

\* C1: a queued page that fails again in a run (fetched within the budget) has
\* its attempt counter incremented by that failure, and is absent from the
\* persisted queue once the counter reaches FAILED_PAGE_MAX_ATTEMPTS.
C1_BoundedRetry ==
    (RunDone /\ BudgetLeft) =>
        \A p \in Pages :
            (p \in PagesOf(failed_at_start) /\ outcome[p] = "error") =>
                IF AttemptsIn(failed_at_start, p) + 1 >= FAILED_PAGE_MAX_ATTEMPTS
                THEN p \notin PagesOf(failed_file)
                ELSE AttemptsIn(failed_file, p) = AttemptsIn(failed_at_start, p) + 1

\* C2: at the end of a run, every page that was queued at its start or got
\* Error in it has a non-error outcome, or is in the persisted queue, or has
\* reached the maximum attempt count.
C2_ErrorsNotDropped ==
    RunDone =>
        \A p \in Pages :
            (p \in PagesOf(failed_at_start) \/ outcome[p] = "error") =>
                \/ NonError(p)
                \/ p \in PagesOf(failed_file)
                \/ AttemptsIn(failed_queue, p) >= FAILED_PAGE_MAX_ATTEMPTS

\* C3: after a run in which page p obtained a non-error outcome, p is absent
\* from the persisted queue.
C3_SuccessRemoves ==
    (RunDone /\ BudgetLeft) => \A p \in Pages : NonError(p) => p \notin PagesOf(failed_file)

\* C4: the persisted cursor always satisfies 1 <= next_page <= ceiling.
C4_CursorBound ==
    1 <= cursor.next_page /\ cursor.next_page <= TARGET_MAX_PAGE

\* a Building run has ended with the cursor persisted at the ceiling
C4_Witness ==
    /\ RunDone
    /\ StartedBuilding
    /\ cursor.next_page = TARGET_MAX_PAGE
    /\ cursor_at_start.next_page < TARGET_MAX_PAGE

\* C5: a Building run in which no page returned Error (none was queued either,
\* and the deadline did not pass) either completes the baseline or persists a
\* strictly larger next_page.
C5_CursorMonotone ==
    ( /\ RunDone
      /\ StartedBuilding
      /\ error_pages = <<>>
      /\ failed_at_start = <<>>
      /\ BudgetLeft ) =>
        \/ cursor.baseline_complete
        \/ cursor.next_page > cursor_at_start.next_page

\* C6: a Building run whose sequential pass got a non-error outcome (Ok or
\* Empty) for the ceiling page ends with baseline_complete = true.
C6_CeilingCompletes ==
    ( /\ RunDone
      /\ StartedBuilding
      /\ BudgetLeft
      /\ \E i \in DOMAIN seq_trace :
            /\ seq_trace[i].n = TARGET_MAX_PAGE
            /\ seq_trace[i].status \in {"ok", "empty"} ) =>
        cursor.baseline_complete

\* C7: the empty-page rule ends a run only while Building and only when the
\* last two pages visited by the sequential pass, one right after the other,
\* were both Empty (all pages fetched within the budget).
C7_EndOfData ==
    (seq_stop = "eod" /\ BudgetLeft) =>
        /\ StartedBuilding
        /\ Len(seq_trace) >= EMPTY_TOLERANCE
        /\ \A i \in (Len(seq_trace) - EMPTY_TOLERANCE + 1)..Len(seq_trace) :
              seq_trace[i].status = "empty"

SteadyWindowEnd == Min(TARGET_MAX_PAGE, DELTA_SCAN_PAGES)

\* C8 as amended: a SteadyState run whose sequential pass is not stopped early
\* starts it at page 1 and hands to the retry controller every page p with
\* 1 <= p <= min(ceiling, delta_window_size), the sequential pass visiting, in
\* increasing order, exactly those not already visited by the failed-first pass.
C8_SteadyWindow ==
    (RunDone /\ StartedSteady /\ seq_stop = "exhausted") =>
        /\ seq_start = 1
        /\ SeqPages = (1..SteadyWindowEnd) \ visited_set
        /\ \A p \in 1..SteadyWindowEnd : outcome[p] # "none"
        /\ \A i, j \in DOMAIN seq_trace : i < j => seq_trace[i].n < seq_trace[j].n

\* a SteadyState run went through its whole window, the last page included
C8_Witness ==
    /\ RunDone
    /\ StartedSteady
    /\ seq_stop = "exhausted"
    /\ cursor_at_start.next_page = 1
    /\ SteadyWindowEnd \in SeqPages

\* C8 as written: the pages visited are those of [1, min(ceiling, delta_window_size)).
C8_HalfOpenWindow ==
    (RunDone /\ StartedSteady /\ seq_stop = "exhausted") =>
        /\ seq_start = 1
        /\ SeqPages \cup visited_set = {p \in Pages : p < SteadyWindowEnd}

\* C9 as amended: a call on an empty prior state with a batch in which no
\* identity occurs twice returns is_baseline_run = true and no changes, whatever
\* the size of the batch and its records.
C9_BaselineSilenceDistinct ==
    [][(DOMAIN state_file = {} /\ today' = today /\ KeysDistinct(d_rows')) =>
           (d_baseline' /\ d_delta' = <<>>)]_vars

\* a baseline call stored two records and reported nothing
C9_Witness ==
    /\ d_baseline
    /\ Len(d_rows) = 2
    /\ KeysDistinct(d_rows)
    /\ DOMAIN state_file = {"X", "Y"}
    /\ \A k \in DOMAIN state_file : state_file[k].first_seen = state_file[k].last_seen
    /\ d_delta = <<>>

\* C9 as written: a call on an empty prior state returns is_baseline_run = true
\* and no changes for every batch, a batch that lists the same identity more
\* than once included.
C9_BaselineSilence ==
    [][(DOMAIN state_file = {} /\ today' = today) =>
           (d_baseline' /\ d_delta' = <<>>)]_vars

\* C10 as amended: for a batch in which no identity occurs twice, a second call
\* with the same rows on the state the first call returned yields zero changes.
C10_IdempotenceDistinct == KeysDistinct(d_rows) => d_delta2 = <<>>

\* the first call reported a new record and a phase change, the second nothing
C10_Witness ==
    /\ KeysDistinct(d_rows)
    /\ Len(d_rows) = 2
    /\ ~d_baseline
    /\ \E i \in DOMAIN d_delta : d_delta[i].change = <<"Jauns">>
    /\ \E i \in DOMAIN d_delta : d_delta[i].change[1] = "Stadija"
    /\ d_delta2 = <<>>

\* C10 as written: for every batch, a second call with the same rows on the
\* state the first call returned yields zero changes.
C10_Idempotence == d_delta2 = <<>>

\* C11: every identity of the prior state stays in the store after a call, and
\* an identity that does not occur in the batch keeps its entry unchanged; so
\* the set of identities in the State Store never shrinks.
C11_NonDestructive ==
    [][\A k \in DOMAIN state_file :
          /\ k \in DOMAIN state_file'
          /\ (\A i \in DOMAIN d_rows' : d_rows'[i]._key # k) =>
                 state_file'[k] = state_file[k]]_vars

\* a call whose batch held only X rows ran on a store that knew X and Y
C11_Witness ==
    /\ {"X", "Y"} \subseteq DOMAIN state_file
    /\ d_rows # <<>>
    /\ \A i \in DOMAIN d_rows : d_rows[i]._key = "X"
    /\ state_file["Y"].last_seen < state_file["X"].last_seen

\* the normalised phase of row i of a batch
RowPhase(rows, i) == Norm(Get(rows[i], "phase", <<>>))

\* the phase of the snapshot stored for identity k when row i of the batch is
\* processed: the prior entry's, or that of the latest earlier row of k
SnapPhase(st, rows, k, i) ==
    LET earlier == {j \in 1..(i - 1) : rows[j]._key = k}
    IN  IF earlier = {} THEN st[k].phase
        ELSE RowPhase(rows, CHOOSE j \in earlier : \A j2 \in earlier : j2 <= j)

\* C12: for an identity already in the prior state, each of its records whose
\* phase differs from the stored snapshot yields exactly one "Stadija" change
\* carrying the old and the new phase, a record with an equal phase yields
\* none; the stored snapshot takes the record's values and last_seen, and
\* first_seen never changes.
C12_UpdateDetection ==
    [][today' = today =>
         \A k \in DOMAIN state_file :
            LET rows == d_rows'
                idx == {i \in DOMAIN rows : rows[i]._key = k}
                diff == {i \in idx : RowPhase(rows, i) # SnapPhase(state_file, rows, k, i)}
                changes == SelectSeq(d_delta', LAMBDA c : c.key = k)
            IN  /\ Len(changes) = Cardinality(diff)
                /\ \A i \in diff :
                      \E c \in Range(changes) :
                          /\ c.change = <<"Stadija", SnapPhase(state_file, rows, k, i),
                                          RowPhase(rows, i)>>
                          /\ c.row.phase = RowPhase(rows, i)
                /\ state_file'[k].first_seen = state_file[k].first_seen
                /\ idx # {} =>
                      LET last == CHOOSE i \in idx : \A i2 \in idx : i2 <= i
                      IN  /\ state_file'[k].phase = RowPhase(rows, last)
                          /\ state_file'[k].last_seen = today'
                          /\ state_file'[k].bis_number = Get(rows[last], "bis_number", <<>>)
    ]_vars

\* X, first seen on day 1, was seen again on day 2 with another phase
C12_Witness ==
    /\ "X" \in DOMAIN state_file
    /\ state_file["X"].first_seen = 1
    /\ state_file["X"].last_seen = 2
    /\ \E i \in DOMAIN d_delta :
          /\ d_delta[i].key = "X"
          /\ d_delta[i].change[1] = "Stadija"
          /\ d_delta[i].change[2] # d_delta[i].change[3]
    /\ Len(d_rows) = 1

\* C13: a run that ends with the cursor still in Building (baseline_complete =
\* false) emits no change record.
C13_SilentUntilBaseline ==
    (RunDone /\ ~cursor.baseline_complete) => d_delta = <<>>

\* the last ERROR_BAIL_WINDOW flags of s
LastWindow(s) == SubSeq(s, Len(s) - ERROR_BAIL_WINDOW + 1, Len(s))

\* C14: after a page, the breaker triggers (cooldown or abort) exactly when at
\* least N = ERROR_BAIL_WINDOW outcomes were recorded since the run started or
\* since the last cooldown and the share of errors among the last N of them is
\* at least the threshold; with fewer than N outcomes it never triggers.
C14_TripPoint ==
    breaker_last.verdict # "none" =>
        ( breaker_last.verdict \in {"cooldown", "bail"}
          <=> /\ Len(breaker_last.seen) >= ERROR_BAIL_WINDOW
              /\ SumSeq(LastWindow(breaker_last.seen)) * 100
                     >= ERROR_BAIL_THRESHOLD_PCT * ERROR_BAIL_WINDOW )

\* the breaker triggered on the Nth outcome after a cooldown earlier in the run
C14_Witness ==
    /\ breaker_last.verdict = "bail"
    /\ Len(breaker_last.seen) = ERROR_BAIL_WINDOW
    /\ storm_cooldowns_used = STORM_COOLDOWNS_MAX

\* C15: once the breaker aborts in the failed-first pass, no further page fetch
\* is started in that run: the sequential pass hands no page to the retry
\* controller.
C15_AbortImmediate ==
    ff_stop = "bail" => (seq_trace = <<>> /\ ~(pass = "seq" /\ pc \in {"call", "inflight"}))

\* C16: within a run no page is handed to the retry controller twice, a page
\* gets at most 1 + MAX_RETRIES_PER_PAGE fetch attempts, and a page whose
\* outcome is Error is in the run's failed-page queue.
C16_BoundedFetches ==
    /\ \A i, j \in DOMAIN handed : i # j => handed[i] # handed[j]
    /\ goto_calls <= 1 + MAX_RETRIES_PER_PAGE
    /\ \A p \in Pages : outcome[p] = "error" => p \in PagesOf(failed_queue)

\* a run whose failed-first pass handled a page of the sequential window, the
\* window being walked to its end, and whose last page used up all attempts
C16_Witness ==
    /\ pc = "save_cursor"
    /\ seq_stop = "exhausted"
    /\ \E p \in visited_set : seq_start <= p /\ p <= seq_end
    /\ goto_calls = 1 + MAX_RETRIES_PER_PAGE
    /\ outcome[page_no] = "error"

\* C17: no fetch attempt (first attempt or retry, in either pass) starts at or
\* after the run's deadline; an attempt that is in flight when the deadline
\* passes is left to finish.
C17_RunBudget == goto_at < GLOBAL_MINUTES_BUDGET

\* a retry that started before the deadline is still in flight at the deadline
C17_Witness ==
    /\ pc = "inflight"
    /\ retries >= 1
    /\ goto_at >= 0
    /\ now = GLOBAL_MINUTES_BUDGET

\* C18: when a run crashes, the Cursor and the Failed-Page Queue are as they
\* were when that run started (the State Store is written last, and only by a
\* run that finishes): nothing of the crashed run has been applied.
C18_CrashConsistency ==
    [][(pc # "idle" /\ pc' = "idle") =>
           (cursor' = cursor_at_start /\ failed_file' = failed_at_start)]_vars

FrontWindowEnd == Min(FRONT_REFRESH_PAGES, TARGET_MAX_PAGE)

\* C19: a Building run that is not stopped early (both passes run to their
\* end) has fetched every page of the front window
\* [1, min(FRONT_REFRESH_PAGES, TARGET_MAX_PAGE)].
C19_FrontRefresh ==
    ( /\ pc \in {"save_cursor", "save_failed", "save_state", "done"}
      /\ StartedBuilding
      /\ FRONT_REFRESH_PAGES > 0
      /\ ff_stop = "exhausted"
      /\ seq_stop = "exhausted" ) =>
        \A p \in 1..FrontWindowEnd : outcome[p] # "none"

\* C20: pop_failed_batch returns at most `limit` entries, all within the
\* ceiling, removed from the queue, and they are the lowest-attempt entries: no
\* entry left in the queue within the ceiling has fewer attempts than a
\* returned one.
C20_PopBatch ==
    /\ Len(q_out.batch) <= q_limit
    /\ \A i \in DOMAIN q_out.batch : q_out.batch[i].n <= TARGET_MAX_PAGE
    /\ Range(q_out.batch) \cup Range(q_out.rest) = Range(q_in)
    /\ Range(q_out.batch) \cap Range(q_out.rest) = {}
    /\ \A i \in DOMAIN q_out.batch : \A j \in DOMAIN q_out.rest :
          q_out.rest[j].n <= TARGET_MAX_PAGE =>
              q_out.batch[i].attempts <= q_out.rest[j].attempts

\* C21: every page visit ends in exactly one of Ok, Empty, Error. A transport
\* failure, a timeout or a backend-error page is classified Error once the retries
\* are used up, never Empty or Ok, and never leaves the visit without a status; a
\* page that loads without the error marker and has zero rows is Empty on that
\* attempt, without any retry. Stated on the step in which fetch_and_parse
\* returns to the loop that called it.
C21_FailureClassification ==
    /\ [](exit_cause # "goto_raised")
    /\ [](\A i \in DOMAIN responses :
              responses[i] \in {"rows", "norows"} => i = Len(responses))
    /\ [][(pc \in {"call", "inflight"} /\ pc' \in {"ff_head", "seq_head", "save_cursor"}) =>
              /\ outcome'[page_no] \in {"ok", "empty", "error"}
              /\ outcome'[page_no] = "ok" <=>
                    (responses' # <<>> /\ responses'[Len(responses')] = "rows")
              /\ outcome'[page_no] = "empty" <=>
                    (responses' # <<>> /\ responses'[Len(responses')] = "norows")
              /\ outcome'[page_no] = "error" <=>
                    (\A i \in DOMAIN responses' : responses'[i] = "fail")]_vars

\* the pages of the sequential window that returned "ok" in this run, in either pass
CompletedInWindow == {p \in Pages : p \in seq_start..seq_end /\ outcome[p] = "ok"}

\* C22: at the end of a Building run that does not complete the baseline, the
\* persisted next_page is one past the highest page of the sequential window
\* completed in this run, where a window page handled in the failed-first pass
\* counts and a failed-pass page outside the window does not; with no window page
\* completed, next_page is what the run loaded.
C22_FrontierAdvance ==
    (RunDone /\ StartedBuilding /\ ~cursor.baseline_complete) =>
        cursor.next_page =
            IF CompletedInWindow = {} THEN cursor_at_start.next_page
            ELSE 1 + CHOOSE p \in CompletedInWindow :
                         \A q \in CompletedInWindow : q <= p

\* C23: the number of cooldowns used in a run never exceeds STORM_COOLDOWNS_MAX;
\* a cooldown is started only if it ends before the run's deadline; right after a
\* cooldown the outcome window is empty, so the breaker triggers again only after
\* at least ERROR_BAIL_WINDOW further outcomes.
C23_CooldownBudget ==
    /\ [](storm_cooldowns_used <= STORM_COOLDOWNS_MAX)
    /\ [][ storm_cooldowns_used' > storm_cooldowns_used =>
              /\ now + COOLDOWN_ON_STORM_MINUTES < GLOBAL_MINUTES_BUDGET
              /\ now' = now + COOLDOWN_ON_STORM_MINUTES
              /\ recent_flags' = <<>>
              /\ breaker_seen' = <<>> ]_vars
    /\ [](breaker_last.verdict \in {"cooldown", "bail"} =>
              Len(breaker_last.seen) >= ERROR_BAIL_WINDOW)

\* after a cooldown one more page returned Error and the breaker let the run go on
C23_Witness ==
    /\ storm_cooldowns_used = STORM_COOLDOWNS_MAX
    /\ breaker_seen = <<1>>
    /\ recent_flags = <<1>>
    /\ breaker_last.verdict = "go"
    /\ now < GLOBAL_MINUTES_BUDGET

\* C24: whatever the fetches come back with, a run that has started eventually
\* ends (deadline, worklist exhausted, breaker abort or end of data), and it ends
\* only after writing the cursor, the failed-page queue and the state store: it
\* never ends without its writes.
C24_TerminatesAndPersists ==
    /\ [](InRun => <>(pc \in {"idle", "done"}))
    /\ [][pc # "idle" => pc' # "idle"]_vars
    /\ [](RunDone =>
            /\ cursor = [next_page |-> cursor.next_page,
                         baseline_complete |-> baseline_complete]
            /\ failed_file = save_failed_queue(failed_queue)
            /\ d_rows = FilterDedup(all_parsed))

\* the cursor every SteadyState run leaves behind, line 542
SteadyCursor == [next_page |-> 1, baseline_complete |-> TRUE]

\* C25: once baseline_complete = true has been persisted, the cursor file never
\* changes again: every later run starts in SteadyState (local flag set, window
\* starting at page 1) and persists {next_page: 1, baseline_complete: true}; no
\* run moves the cursor from SteadyState back to Building.
C25_BaselineIrreversible ==
    /\ [](cursor.baseline_complete => cursor = SteadyCursor)
    /\ [][cursor.baseline_complete => cursor' = SteadyCursor]_vars
    /\ [][(cursor.baseline_complete /\ pc' = "ff_head" /\ pc \in {"idle", "done"}) =>
              /\ baseline_complete'
              /\ cursor_at_start' = SteadyCursor
              /\ seq_start' = 1
              /\ seq_end' = SteadyWindowEnd]_vars
    /\ []((StartedSteady /\ pc \notin {"idle"}) => baseline_complete)
    /\ []((StartedSteady /\ RunDone) => cursor = SteadyCursor)

====
